---- MODULE Spec2Model ----
(***************************************************************************)
(* Model of the log export engine of the CostGuardian dashboard            *)
(* (frontend/components/log-downloader.tsx): month discovery, the two      *)
(* export handlers, the three breakdown helpers and the document they      *)
(* hand to downloadJSON.                                                   *)
(*                                                                         *)
(* Representation.                                                         *)
(*  - A JavaScript string that the code builds, sorts, splits or parses    *)
(*    is a sequence of UTF-16 code units (Naturals), so that the default   *)
(*    Array.prototype.sort order is the real lexicographic order.          *)
(*    Fixed literals that are only carried along (titles, month names,     *)
(*    alert kinds) are TLA+ strings.                                       *)
(*  - A Date is its ECMAScript time value, split as seconds since the      *)
(*    epoch and milliseconds within the second: [nan, s, ms].  nan = TRUE  *)
(*    is the Invalid Date.  The local time zone is a fixed offset tz, in   *)
(*    minutes east of UTC (no daylight-saving transitions).                *)
(*  - An optional field of an event is <<>> when absent and <<v>> when     *)
(*    present.                                                             *)
(*  - A money amount is a number of thousandths of a dollar; toFixed(2)    *)
(*    rounds it to cents.  Binary floating-point error is not modelled.    *)
(***************************************************************************)
EXTENDS Integers, Sequences, FiniteSets, TLC

VARIABLES data, tz, rendered, availableMonths, lastCall, alertMsg, delivered,
          firstExport, \* history: the first export request and what it yielded
          calls,       \* the handler invocations in progress, one per caller
          page         \* the dashboard page: its state and the run of fetchData

vars == <<data, tz, rendered, availableMonths, lastCall, alertMsg, delivered, firstExport,
          calls, page>>

-----------------------------------------------------------------------------
(* Strings as sequences of code units                                      *)

Hyphen == <<45>>
Comma == <<44>>
Dot == <<46>>
Dollar == <<36>>
NaNStr == <<78, 97, 78>>

Digit(c) == c - 48

IsDigit(c) == c >= 48 /\ c <= 57

RECURSIVE NumToStr(_)
\* Number::toString for a non-negative integer
NumToStr(n) == IF n < 10 THEN <<48 + n>> ELSE NumToStr(n \div 10) \o <<48 + (n % 10)>>

RECURSIVE padStart(_, _, _)
\* String.prototype.padStart(len, fill) with a one-unit fill string
padStart(str, len, fill) == IF Len(str) >= len THEN str ELSE padStart(fill \o str, len, fill)

\* the order of Array.prototype.sort without a comparator: code unit by code
\* unit; a proper prefix sorts first
RECURSIVE StrLess(_, _)
StrLess(a, b) ==
    IF b = <<>> THEN FALSE
    ELSE IF a = <<>> THEN TRUE
    ELSE IF a[1] # b[1] THEN a[1] < b[1]
    ELSE StrLess(Tail(a), Tail(b))

\* index of the first occurrence of code unit c in str, 0 when there is none
IndexOf(str, c) ==
    IF \E i \in 1..Len(str) : str[i] = c
    THEN CHOOSE i \in 1..Len(str) : str[i] = c /\ \A j \in 1..(i - 1) : str[j] # c
    ELSE 0

RECURSIVE split(_, _)
\* String.prototype.split(sep) with a one-unit separator
split(str, c) ==
    LET i == IndexOf(str, c)
    IN IF i = 0 THEN <<str>>
       ELSE <<SubSeq(str, 1, i - 1)>> \o split(SubSeq(str, i + 1, Len(str)), c)

RECURSIVE DigitsValue(_, _)
DigitsValue(str, acc) ==
    IF str = <<>> \/ ~IsDigit(str[1]) THEN acc
    ELSE DigitsValue(Tail(str), 10 * acc + Digit(str[1]))

\* parseInt(str): the leading decimal digits; <<>> stands for NaN
parseInt(str) ==
    IF str = <<>> \/ ~IsDigit(str[1]) THEN <<>> ELSE <<DigitsValue(str, 0)>>

\* Array.prototype.sort() without a comparator on an array of strings:
\* insertion of x into a sequence kept ascending under StrLess
RECURSIVE InsertString(_, _)
InsertString(x, s) ==
    IF s = <<>> THEN <<x>>
    ELSE IF StrLess(x, s[1]) THEN <<x>> \o s
    ELSE <<s[1]>> \o InsertString(x, Tail(s))

RECURSIVE sort(_)
sort(s) ==
    IF s = <<>> THEN <<>>
    ELSE InsertString(s[Len(s)], sort(SubSeq(s, 1, Len(s) - 1)))

\* an entry [key, value] of Object.entries is compared by sort() through its
\* string conversion, "key,[object Object]"
ObjectObject == <<91, 111, 98, 106, 101, 99, 116, 32, 79, 98, 106, 101, 99, 116, 93>>

EntryToString(e) == e.key \o Comma \o ObjectObject

RECURSIVE InsertEntry(_, _)
InsertEntry(x, s) ==
    IF s = <<>> THEN <<x>>
    ELSE IF StrLess(EntryToString(x), EntryToString(s[1])) THEN <<x>> \o s
    ELSE <<s[1]>> \o InsertEntry(x, Tail(s))

\* variant: the entries are left in insertion order
sortEntries_none(s) == s

RECURSIVE sortEntries(_)
sortEntries(s) ==
    IF s = <<>> THEN <<>>
    ELSE InsertEntry(s[Len(s)], sortEntries(SubSeq(s, 1, Len(s) - 1)))

RECURSIVE reverse(_)
reverse(s) == IF s = <<>> THEN <<>> ELSE reverse(Tail(s)) \o <<s[1]>>

-----------------------------------------------------------------------------
(* ECMAScript Date: time values, calendar arithmetic, local time           *)

\* a time value (s seconds and ms milliseconds after the epoch), and NaN
TimeValue(s, ms) == [nan |-> FALSE, s |-> s, ms |-> ms]

InvalidDate == [nan |-> TRUE, s |-> 0, ms |-> 0]

\* Date <= Date and Date >= Date compare the time values; false with NaN
DateLE(a, b) ==
    /\ ~a.nan
    /\ ~b.nan
    /\ (a.s < b.s \/ (a.s = b.s /\ a.ms <= b.ms))

DateGE(a, b) == DateLE(b, a)

\* ECMA-262 DayFromYear, InLeapYear, YearFromTime (days since the epoch)
DayFromYear(y) ==
    365 * (y - 1970) + ((y - 1969) \div 4) - ((y - 1901) \div 100) + ((y - 1601) \div 400)

InLeapYear(y) == (y % 4 = 0) /\ ((y % 100 # 0) \/ (y % 400 = 0))

YearFromDay(d) ==
    LET y0 == 1970 + (d \div 365)
    IN IF DayFromYear(y0) <= d THEN y0 ELSE y0 - 1

\* first day within the year of month m (0..11; 12 is the year's end)
DaysBeforeMonth(m, y) ==
    <<0, 31, 59, 90, 120, 151, 181, 212, 243, 273, 304, 334, 365>>[m + 1]
        + (IF m >= 2 /\ InLeapYear(y) THEN 1 ELSE 0)

MonthFromDay(d) ==
    LET y == YearFromDay(d)
        w == d - DayFromYear(y)
    IN CHOOSE m \in 0..11 : DaysBeforeMonth(m, y) <= w /\ w < DaysBeforeMonth(m + 1, y)

DateFromDay(d) ==
    LET y == YearFromDay(d)
    IN d - DayFromYear(y) - DaysBeforeMonth(MonthFromDay(d), y) + 1

\* ECMA-262 MakeDay: month and date may lie outside their ranges (day 0 of a
\* month is the last day of the month before)
MakeDay(year, month, date) ==
    LET ym == year + (month \div 12)
        mn == month % 12
    IN DayFromYear(ym) + DaysBeforeMonth(mn, ym) + date - 1

MakeTime(hour, min, sec) == hour * 3600 + min * 60 + sec

\* LocalTime(t) and UTC(t), in seconds, for the fixed offset tz
LocalTime(s) == s + tz * 60

UTC(s) == s - tz * 60

\* the calendar fields of a count of seconds
Fields(sec, ms) ==
    LET d == sec \div 86400
        r == sec % 86400
    IN [Y |-> YearFromDay(d), M |-> MonthFromDay(d) + 1, D |-> DateFromDay(d),
        h |-> r \div 3600, mi |-> (r % 3600) \div 60, s |-> r % 60, ms |-> ms]

\* new Date(year, monthIndex, day, hours, minutes, seconds): local time;
\* an argument <<>> is NaN and makes the date invalid
NewDateLocal(year, monthIndex, day, hours, minutes, seconds) ==
    IF year = <<>> \/ monthIndex = <<>> THEN InvalidDate
    ELSE TimeValue(UTC(MakeDay(year[1], monthIndex[1], day) * 86400
                       + MakeTime(hours, minutes, seconds)), 0)

\* Date.prototype.getFullYear / getMonth: local fields, <<>> (NaN) when invalid
getFullYear(date) ==
    IF date.nan THEN <<>> ELSE <<YearFromDay(LocalTime(date.s) \div 86400)>>

getMonth(date) ==
    IF date.nan THEN <<>> ELSE <<MonthFromDay(LocalTime(date.s) \div 86400)>>

\* a timestamp string: an ISO 8601 date-time [Y, M, D, h, mi, s, ms], with the
\* suffix Z (z = TRUE) or without an offset (z = FALSE); valid = FALSE is a
\* string that is no date at all
IsoString(Y, M, D, h, mi, s, ms, z) ==
    [valid |-> TRUE, Y |-> Y, M |-> M, D |-> D, h |-> h, mi |-> mi, s |-> s, ms |-> ms, z |-> z]

Malformed ==
    [valid |-> FALSE, Y |-> 0, M |-> 0, D |-> 0, h |-> 0, mi |-> 0, s |-> 0, ms |-> 0, z |-> FALSE]

\* variant: a string that is no date is read as the epoch
NewDate_epoch(str) ==
    IF ~str.valid THEN TimeValue(0, 0)
    ELSE LET t == MakeDay(str.Y, str.M - 1, str.D) * 86400 + MakeTime(str.h, str.mi, str.s)
         IN TimeValue(IF str.z THEN t ELSE UTC(t), str.ms)

\* new Date(string): a date-time with Z is UTC, one without offset is local
\* time; anything else is the Invalid Date
NewDate(str) ==
    IF ~str.valid THEN InvalidDate
    ELSE LET t == MakeDay(str.Y, str.M - 1, str.D) * 86400 + MakeTime(str.h, str.mi, str.s)
         IN TimeValue(IF str.z THEN t ELSE UTC(t), str.ms)

\* variant: the local fields are written with the suffix Z
toISOString_local(date) ==
    LET f == Fields(LocalTime(date.s), date.ms)
    IN IsoString(f.Y, f.M, f.D, f.h, f.mi, f.s, f.ms, TRUE)

\* Date.prototype.toISOString: the UTC fields, suffix Z (valid dates only;
\* the Invalid Date throws a RangeError, see Throws)
toISOString(date) ==
    LET f == Fields(date.s, date.ms)
    IN IsoString(f.Y, f.M, f.D, f.h, f.mi, f.s, f.ms, TRUE)

\* toLocaleString / toLocaleDateString: the local fields (the rendering
\* itself is the locale's)
toLocaleString(date) ==
    IF date.nan THEN Malformed
    ELSE LET f == Fields(LocalTime(date.s), date.ms)
         IN IsoString(f.Y, f.M, f.D, f.h, f.mi, f.s, f.ms, FALSE)

\* isoString.split("T")[0]: the text YYYY-MM-DD
DatePart(iso) ==
    padStart(NumToStr(iso.Y), 4, <<48>>) \o Hyphen \o padStart(NumToStr(iso.M), 2, <<48>>)
        \o Hyphen \o padStart(NumToStr(iso.D), 2, <<48>>)

\* a template literal's conversion of a number that may be NaN
NumberToString(n) == IF n = <<>> THEN NaNStr ELSE NumToStr(n[1])

-----------------------------------------------------------------------------
(* Numbers and optional fields                                             *)

\* Number.prototype.toFixed(2) of a non-negative amount of thousandths:
\* the nearest count of cents, the larger one on a tie
toFixed(n) ==
    LET c == (n + 5) \div 10
    IN NumToStr(c \div 100) \o Dot \o padStart(NumToStr(c % 100), 2, <<48>>)

\* x || 0 for an optional number: undefined and 0 are falsy
OrZero(x) == IF x = <<>> THEN 0 ELSE x[1]

\* r.annual_savings || r.monthly_savings * 12 || 0
\* (undefined * 12 is NaN, which is falsy)
AnnualOf(r) ==
    IF r.annual_savings # <<>> /\ r.annual_savings[1] # 0 THEN r.annual_savings[1]
    ELSE IF r.monthly_savings # <<>> /\ r.monthly_savings[1] * 12 # 0
         THEN r.monthly_savings[1] * 12
    ELSE 0

\* variant: the monthly total reduces over the annual expression
RECURSIVE SumMonthly_annual(_)
SumMonthly_annual(rs) ==
    IF rs = <<>> THEN 0
    ELSE SumMonthly_annual(SubSeq(rs, 1, Len(rs) - 1)) + AnnualOf(rs[Len(rs)])

\* Array.prototype.reduce with (sum, r) => sum + f(r), from 0, left to right
RECURSIVE SumMonthly(_)
SumMonthly(rs) ==
    IF rs = <<>> THEN 0
    ELSE SumMonthly(SubSeq(rs, 1, Len(rs) - 1)) + OrZero(rs[Len(rs)].monthly_savings)

RECURSIVE SumAnnual(_)
SumAnnual(rs) ==
    IF rs = <<>> THEN 0
    ELSE SumAnnual(SubSeq(rs, 1, Len(rs) - 1)) + AnnualOf(rs[Len(rs)])

\* Array.prototype.filter: the elements satisfying the flags, in order
RECURSIVE filter(_, _)
filter(rs, keep) ==
    IF rs = <<>> THEN <<>>
    ELSE (IF keep[1] THEN <<rs[1]>> ELSE <<>>) \o filter(Tail(rs), Tail(keep))

Range(s) == {s[i] : i \in 1..Len(s)}

-----------------------------------------------------------------------------
(* The component: month discovery and the breakdown helpers                *)

\* variant: only an absent collection counts as no data
NoResources_absentOnly == data.deleted_resources = <<>>

\* data?.deleted_resources is <<>> when absent and <<array>> when present
NoResources == data.deleted_resources = <<>> \/ data.deleted_resources[1] = <<>>

\* `${date.getFullYear()}-${String(date.getMonth() + 1).padStart(2, "0")}`
MonthYearOf(resource) ==
    LET date == NewDate(resource.deleted_at)
        m == getMonth(date)
    IN NumberToString(getFullYear(date)) \o Hyphen
         \o padStart(NumberToString(IF m = <<>> THEN <<>> ELSE <<m[1] + 1>>), 2, <<48>>)

\* monthsSet.add over the resources in order: a Set keeps insertion order
\* and ignores a value it already holds
RECURSIVE monthsSet(_)
monthsSet(rs) ==
    IF rs = <<>> THEN <<>>
    ELSE LET before == monthsSet(SubSeq(rs, 1, Len(rs) - 1))
             monthYear == MonthYearOf(rs[Len(rs)])
         IN IF monthYear \in Range(before) THEN before ELSE Append(before, monthYear)

\* variant: the sorted keys are not reversed
getAvailableMonths_ascending ==
    IF NoResources THEN <<>>
    ELSE sort(monthsSet(data.deleted_resources[1]))

getAvailableMonths ==
    IF NoResources THEN <<>>
    ELSE reverse(sort(monthsSet(data.deleted_resources[1])))

\* variant: the month names are indexed from 1
getMonthName_oneBased(monthIndex) ==
    IF monthIndex = <<>> \/ monthIndex[1] < -1 \/ monthIndex[1] > 10 THEN "undefined"
    ELSE <<"January", "February", "March", "April", "May", "June", "July", "August",
           "September", "October", "November", "December">>[monthIndex[1] + 2]

getMonthName(monthIndex) ==
    IF monthIndex = <<>> \/ monthIndex[1] < 0 \/ monthIndex[1] > 11 THEN "undefined"
    ELSE <<"January", "February", "March", "April", "May", "June", "July", "August",
           "September", "October", "November", "December">>[monthIndex[1] + 1]

\* variant: the saving of the event that creates an entry is not added
AddTo_skipFirst(breakdown, k, resource) ==
    IF \E i \in 1..Len(breakdown) : breakdown[i].key = k
    THEN [i \in 1..Len(breakdown) |->
            IF breakdown[i].key = k
            THEN [key |-> k, count |-> breakdown[i].count + 1,
                  savings |-> breakdown[i].savings + OrZero(resource.monthly_savings)]
            ELSE breakdown[i]]
    ELSE Append(breakdown, [key |-> k, count |-> 1, savings |-> 0])

\* variant: an entry is initialised again each time its key is met
AddTo_reset(breakdown, k, resource) ==
    IF \E i \in 1..Len(breakdown) : breakdown[i].key = k
    THEN [i \in 1..Len(breakdown) |->
            IF breakdown[i].key = k
            THEN [key |-> k, count |-> 1, savings |-> OrZero(resource.monthly_savings)]
            ELSE breakdown[i]]
    ELSE Append(breakdown, [key |-> k, count |-> 1,
                            savings |-> OrZero(resource.monthly_savings)])

\* variant: the savings of an entry are assigned instead of added
AddTo_assign(breakdown, k, resource) ==
    IF \E i \in 1..Len(breakdown) : breakdown[i].key = k
    THEN [i \in 1..Len(breakdown) |->
            IF breakdown[i].key = k
            THEN [key |-> k, count |-> breakdown[i].count + 1,
                  savings |-> OrZero(resource.monthly_savings)]
            ELSE breakdown[i]]
    ELSE Append(breakdown, [key |-> k, count |-> 1,
                            savings |-> OrZero(resource.monthly_savings)])

\* the accumulator object of a breakdown: its entries [key, count, savings]
\* in insertion order.  One step of the forEach body:
\*   if (!breakdown[k]) breakdown[k] = {count: 0, savings: 0};
\*   breakdown[k].count++; breakdown[k].savings += resource.monthly_savings || 0
AddTo(breakdown, k, resource) ==
    IF \E i \in 1..Len(breakdown) : breakdown[i].key = k
    THEN [i \in 1..Len(breakdown) |->
            IF breakdown[i].key = k
            THEN [key |-> k, count |-> breakdown[i].count + 1,
                  savings |-> breakdown[i].savings + OrZero(resource.monthly_savings)]
            ELSE breakdown[i]]
    ELSE Append(breakdown, [key |-> k, count |-> 1,
                            savings |-> OrZero(resource.monthly_savings)])

DayOf(resource) == DatePart(toISOString(NewDate(resource.deleted_at)))

RECURSIVE breakdownByType(_)
breakdownByType(rs) ==
    IF rs = <<>> THEN <<>>
    ELSE AddTo(breakdownByType(SubSeq(rs, 1, Len(rs) - 1)),
               rs[Len(rs)].resource_type, rs[Len(rs)])

RECURSIVE breakdownByMonth(_)
breakdownByMonth(rs) ==
    IF rs = <<>> THEN <<>>
    ELSE AddTo(breakdownByMonth(SubSeq(rs, 1, Len(rs) - 1)),
               MonthYearOf(rs[Len(rs)]), rs[Len(rs)])

RECURSIVE breakdownByDay(_)
breakdownByDay(rs) ==
    IF rs = <<>> THEN <<>>
    ELSE AddTo(breakdownByDay(SubSeq(rs, 1, Len(rs) - 1)), DayOf(rs[Len(rs)]), rs[Len(rs)])

\* variant: the annual figure of an entry is its monthly sum
typeEntries_noTwelve(entries) ==
    [i \in 1..Len(entries) |->
        [type |-> entries[i].key,
         count |-> entries[i].count,
         monthly_savings |-> Dollar \o toFixed(entries[i].savings),
         annual_savings |-> Dollar \o toFixed(entries[i].savings)]]

\* Object.entries(breakdown).map(...): insertion order, no sort
typeEntries(entries) ==
    [i \in 1..Len(entries) |->
        [type |-> entries[i].key,
         count |-> entries[i].count,
         monthly_savings |-> Dollar \o toFixed(entries[i].savings),
         annual_savings |-> Dollar \o toFixed(entries[i].savings * 12)]]

getBreakdownByType(resources) == typeEntries(breakdownByType(resources))

\* Object.entries(breakdown).sort().map(...)
getBreakdownByMonth(resources) ==
    LET entries == sortEntries(breakdownByMonth(resources))
    IN [i \in 1..Len(entries) |->
          LET parts == split(entries[i].key, 45)
              month == parseInt(parts[2])
          IN [month |-> getMonthName(IF month = <<>> THEN <<>> ELSE <<month[1] - 1>>),
              year |-> parts[1],
              count |-> entries[i].count,
              monthly_savings |-> Dollar \o toFixed(entries[i].savings),
              annual_savings |-> Dollar \o toFixed(entries[i].savings * 12)]]

\* Object.entries(breakdown).sort().map(...); new Date("YYYY-MM-DD") is UTC
\* midnight of that day
getBreakdownByDay(resources) ==
    LET entries == sortEntries(breakdownByDay(resources))
    IN [i \in 1..Len(entries) |->
          LET parts == split(entries[i].key, 45)
              midnight == TimeValue(MakeDay(parseInt(parts[1])[1], parseInt(parts[2])[1] - 1,
                                            parseInt(parts[3])[1]) * 86400, 0)
          IN [date |-> entries[i].key,
              date_readable |-> toLocaleString(midnight),
              count |-> entries[i].count,
              monthly_savings |-> Dollar \o toFixed(entries[i].savings)]]

-----------------------------------------------------------------------------
(* The two export handlers                                                 *)

NoAlert == [kind |-> "none", month |-> "", year |-> <<>>]

\* alert("No deleted resources data available to download.")
NoDataAlert == [kind |-> "No deleted resources data available to download.",
                month |-> "", year |-> <<>>]

\* alert(`No resources deleted in ${getMonthName(parseInt(month) - 1)} ${year}.`)
NoMatchAlert(monthName, year) ==
    [kind |-> "No resources deleted in", month |-> monthName, year |-> year]

NoCall == [op |-> "none", now |-> InvalidDate, monthYear |-> <<>>, threw |-> FALSE]

\* variant: the timestamp of an entry is written again from its parsed value
Enriched_normalised(resource) ==
    [resource_type |-> resource.resource_type,
     resource_id |-> resource.resource_id,
     resource_name |-> IF resource.resource_name = <<>> \/ resource.resource_name[1] = ""
                       THEN "Unnamed" ELSE resource.resource_name[1],
     deleted_at |-> toISOString(NewDate(resource.deleted_at)),
     deleted_date_readable |-> toLocaleString(NewDate(resource.deleted_at)),
     monthly_savings |-> Dollar \o toFixed(OrZero(resource.monthly_savings)),
     annual_savings |-> Dollar \o toFixed(AnnualOf(resource)),
     region |-> IF resource.region # <<>> /\ resource.region[1] # "" THEN resource.region[1]
                ELSE IF data.config_aws_region # <<>> /\ data.config_aws_region[1] # ""
                     THEN data.config_aws_region[1]
                ELSE "us-east-1"]

\* the entries of deleted_resources in an export document
Enriched(resource) ==
    [resource_type |-> resource.resource_type,
     resource_id |-> resource.resource_id,
     resource_name |-> IF resource.resource_name = <<>> \/ resource.resource_name[1] = ""
                       THEN "Unnamed" ELSE resource.resource_name[1],
     deleted_at |-> resource.deleted_at,
     deleted_date_readable |-> toLocaleString(NewDate(resource.deleted_at)),
     monthly_savings |-> Dollar \o toFixed(OrZero(resource.monthly_savings)),
     annual_savings |-> Dollar \o toFixed(AnnualOf(resource)),
     region |-> IF resource.region # <<>> /\ resource.region[1] # "" THEN resource.region[1]
                ELSE IF data.config_aws_region # <<>> /\ data.config_aws_region[1] # ""
                     THEN data.config_aws_region[1]
                ELSE "us-east-1"]

\* variant: strict comparison with the as-of instant
filterUpTo_strict(resources, currentDate) ==
    filter(resources,
           [i \in 1..Len(resources) |->
               /\ DateLE(NewDate(resources[i].deleted_at), currentDate)
               /\ NewDate(resources[i].deleted_at) # currentDate])

\* data.deleted_resources.filter(r => new Date(r.deleted_at) <= currentDate)
filterUpTo(resources, currentDate) ==
    filter(resources,
           [i \in 1..Len(resources) |-> DateLE(NewDate(resources[i].deleted_at), currentDate)])

\* formatDate(date): date.toISOString().split("T")[0]
formatDate(date) == DatePart(toISOString(date))

\* summary: { breakdown_by_type, breakdown_by_month } of downloadAllLogs
allTimeSummary(filteredResources) ==
    [breakdown_by_type |-> getBreakdownByType(filteredResources),
     breakdown_by_month |-> getBreakdownByMonth(filteredResources)]

\* variant: the month export reuses the summary of the complete export
monthSummary_copied(filteredResources) == allTimeSummary(filteredResources)

\* summary: { breakdown_by_type, breakdown_by_day } of downloadMonthLog
monthSummary(filteredResources) ==
    [breakdown_by_type |-> getBreakdownByType(filteredResources),
     breakdown_by_day |-> getBreakdownByDay(filteredResources)]

allTimeDocument(filteredResources, currentDate) ==
    [export_info |->
        [title |-> <<"CostGuardian - Complete Deletion Log">>,
         export_date |-> toISOString(currentDate),
         date_range |->
            [from |-> IF Len(filteredResources) > 0
                      THEN toISOString(NewDate(filteredResources[Len(filteredResources)].deleted_at))
                      ELSE toISOString(currentDate),
             to |-> toISOString(currentDate)],
         total_resources |-> Len(filteredResources),
         total_monthly_savings |-> toFixed(SumMonthly(filteredResources)),
         total_annual_savings |-> toFixed(SumAnnual(filteredResources))],
     deleted_resources |->
        [i \in 1..Len(filteredResources) |-> Enriched(filteredResources[i])],
     summary |-> allTimeSummary(filteredResources)]

\* const [year, month] = monthYear.split("-")
YearPart(monthYear) == split(monthYear, 45)[1]

MonthPart(monthYear) == split(monthYear, 45)[2]

\* parseInt(month) - 1 and parseInt(month), NaN kept
MonthIndex(monthYear) ==
    LET m == parseInt(MonthPart(monthYear)) IN IF m = <<>> THEN <<>> ELSE <<m[1] - 1>>

\* new Date(parseInt(year), parseInt(month) - 1, 1)
startDate(monthYear) ==
    NewDateLocal(parseInt(YearPart(monthYear)), MonthIndex(monthYear), 1, 0, 0, 0)

\* variant: the time of day is left out of the end of the window
endDate_midnight(monthYear) ==
    NewDateLocal(parseInt(YearPart(monthYear)), parseInt(MonthPart(monthYear)), 0, 0, 0, 0)

\* new Date(parseInt(year), parseInt(month), 0, 23, 59, 59)
endDate(monthYear) ==
    NewDateLocal(parseInt(YearPart(monthYear)), parseInt(MonthPart(monthYear)), 0, 23, 59, 59)

\* variant: the month number is used as the index of the month name
noMatchNotice_offByOne(monthYear) ==
    NoMatchAlert(getMonthName(parseInt(MonthPart(monthYear))), YearPart(monthYear))

\* the notice of downloadMonthLog when the filter selects nothing
noMatchNotice(monthYear) ==
    NoMatchAlert(getMonthName(MonthIndex(monthYear)), YearPart(monthYear))

\* variant: an incremental export, which leaves out the events of the
\* document delivered last
filterMonth_incremental(resources, monthYear) ==
    filter(resources,
           [i \in 1..Len(resources) |->
               /\ DateGE(NewDate(resources[i].deleted_at), startDate(monthYear))
               /\ DateLE(NewDate(resources[i].deleted_at), endDate(monthYear))
               /\ \/ delivered = <<>>
                  \/ \A j \in 1..Len(delivered[1].exportData.deleted_resources) :
                        delivered[1].exportData.deleted_resources[j].resource_id
                            # resources[i].resource_id])

\* data.deleted_resources.filter(r => d >= startDate && d <= endDate)
filterMonth(resources, monthYear) ==
    filter(resources,
           [i \in 1..Len(resources) |->
               /\ DateGE(NewDate(resources[i].deleted_at), startDate(monthYear))
               /\ DateLE(NewDate(resources[i].deleted_at), endDate(monthYear))])

monthDocument(filteredResources, monthYear, now) ==
    [export_info |->
        [title |-> <<"CostGuardian - ", getMonthName(MonthIndex(monthYear)), " ",
                     YearPart(monthYear), " Deletion Log">>,
         export_date |-> toISOString(now),
         month |-> getMonthName(MonthIndex(monthYear)),
         year |-> YearPart(monthYear),
         date_range |-> [from |-> toISOString(startDate(monthYear)),
                         to |-> toISOString(endDate(monthYear))],
         total_resources |-> Len(filteredResources),
         total_monthly_savings |-> toFixed(SumMonthly(filteredResources)),
         total_annual_savings |-> toFixed(SumAnnual(filteredResources))],
     deleted_resources |->
        [i \in 1..Len(filteredResources) |-> Enriched(filteredResources[i])],
     summary |-> monthSummary(filteredResources)]

\* downloadJSON(exportData, filename): the document and the file name handed
\* to the browser
downloadJSON(exportData, filename) == <<[exportData |-> exportData, filename |-> filename]>>

-----------------------------------------------------------------------------
(* Inputs                                                                  *)

MaxEvents == 2

\* resource type names
EC2 == <<69, 67, 50>>
EBS == <<69, 66, 83>>
S3 == <<83, 51>>

Event(type, id, name, at, monthly, annual, region) ==
    [resource_type |-> type, resource_id |-> id, resource_name |-> name, deleted_at |-> at,
     monthly_savings |-> monthly, annual_savings |-> annual, region |-> region]

\* the deletion events a collection is drawn from: the instants around the
\* month boundaries (local and UTC forms), a leap-year February, a year
\* change, a string that is no date; amounts in thousandths of a dollar
Pool ==
    { Event(EC2, "i-1", <<"web">>, IsoString(2025, 1, 31, 23, 59, 59, 0, FALSE),
            <<10000>>, <<>>, <<"eu-west-1">>),
      Event(EBS, "vol-2", <<>>, IsoString(2025, 1, 31, 23, 59, 59, 500, FALSE),
            <<20000>>, <<300000>>, <<>>),
      Event(EC2, "i-3", <<"">>, IsoString(2025, 2, 1, 0, 0, 0, 0, FALSE),
            <<5000>>, <<>>, <<>>),
      Event(S3, "bkt-4", <<"logs">>, IsoString(2025, 3, 15, 10, 0, 0, 0, TRUE),
            <<>>, <<>>, <<"">>),
      Event(EBS, "vol-5", <<>>, IsoString(2024, 12, 31, 22, 0, 0, 0, TRUE),
            <<2005>>, <<0>>, <<>>),
      Event(EC2, "i-6", <<>>, IsoString(2025, 2, 1, 3, 0, 0, 0, TRUE),
            <<0>>, <<>>, <<>>),
      Event(S3, "bkt-7", <<>>, IsoString(2024, 2, 29, 23, 59, 59, 0, FALSE),
            <<2005>>, <<>>, <<>>),
      Event(EBS, "vol-8", <<>>, IsoString(2025, 3, 15, 10, 0, 0, 0, TRUE),
            <<20000>>, <<>>, <<>>),
      Event(S3, "bkt-9", <<>>, Malformed, <<10000>>, <<>>, <<>>) }

Collections == UNION {[1..n -> Pool] : n \in 0..MaxEvents}

\* local time zones: minutes east of UTC
Zones == {-300, 330}

UtcTime(Y, M, D, h, mi, s, ms) ==
    TimeValue(MakeDay(Y, M - 1, D) * 86400 + MakeTime(h, mi, s), ms)

\* a month that may be requested although no event lies in it
RequestMonths == {<<50, 48, 50, 53, 45, 48, 50>>}

\* the instants at which an export is requested (new Date())
Nows ==
    { UtcTime(2024, 1, 1, 0, 0, 0, 0),
      UtcTime(2025, 2, 1, 3, 0, 0, 0),
      UtcTime(2025, 6, 30, 12, 0, 0, 250) }

\* the count shown on the button of a month: data.deleted_resources.filter(
\* r => d.getFullYear() === parseInt(year) && d.getMonth() === parseInt(month) - 1)
\* (NaN is equal to nothing)
monthResources(monthYear) ==
    IF NoResources THEN <<>>
    ELSE LET resources == data.deleted_resources[1]
         IN filter(resources,
                   [i \in 1..Len(resources) |->
                       LET d == NewDate(resources[i].deleted_at)
                       IN /\ getFullYear(d) # <<>>
                          /\ getMonth(d) # <<>>
                          /\ getFullYear(d) = parseInt(YearPart(monthYear))
                          /\ getMonth(d) = MonthIndex(monthYear)])

\* the page of the dashboard: useState(null) for data, useState(true) for
\* loading; pc is the position of the run of fetchData, config and
\* dataResponse its local constants (<<>> while not assigned), failed whether
\* the run went through its catch block
NoPage ==
    [pc |-> "mount", loading |-> TRUE, data |-> <<>>, config |-> <<>>,
     dataResponse |-> <<>>, failed |-> FALSE]

\* the callers that may have a handler invocation in progress
Callers == {1, 2}

\* the local variables of one handler invocation: its position, its
\* arguments, filteredResources, the index and the accumulator of the reduce
\* in progress, the breakdown object of getBreakdownByType, and its result
IdleCall ==
    [pc |-> "idle", op |-> "none", monthYear |-> <<>>, now |-> InvalidDate,
     filteredResources |-> <<>>, i |-> 0, sum |-> 0, breakdown |-> <<>>,
     alertMsg |-> NoAlert, delivered |-> <<>>, overlapped |-> FALSE]

NoCalls == [c \in Callers |-> IdleCall]

-----------------------------------------------------------------------------
(* State machine.  The two handlers are modelled as the operations of the  *)
(* engine: they may be called whatever the buttons of the page show, with  *)
(* any discovered month or a month of RequestMonths.                       *)

Init ==
    /\ data \in [deleted_resources : {<<>>} \cup {<<c>> : c \in Collections},
                 config_aws_region : {<<>>, <<"us-west-2">>}]
    /\ tz \in Zones
    /\ rendered = FALSE
    /\ availableMonths = <<>>
    /\ lastCall = NoCall
    /\ alertMsg = NoAlert
    /\ delivered = <<>>
    /\ firstExport = <<>>
    /\ calls = NoCalls
    /\ page = NoPage

\* variant: the months are discovered over the collection reordered in place
Render_inPlace ==
    /\ ~rendered
    /\ rendered' = TRUE
    /\ availableMonths' = getAvailableMonths
    /\ data' = IF NoResources THEN data
               ELSE [data EXCEPT !.deleted_resources = <<reverse(data.deleted_resources[1])>>]
    /\ UNCHANGED <<tz, lastCall, alertMsg, delivered>>

\* the component renders: const availableMonths = getAvailableMonths()
Render ==
    /\ ~rendered
    /\ rendered' = TRUE
    /\ availableMonths' = getAvailableMonths
    /\ UNCHANGED <<data, tz, lastCall, alertMsg, delivered>>

\* variant: an empty filter result is signalled, as the month export does
downloadAllLogs_signalEmpty(currentDate) ==
    /\ rendered
    /\ lastCall' = [op |-> "downloadAllLogs", now |-> currentDate, monthYear |-> <<>>,
                    threw |-> FALSE]
    /\ IF NoResources \/ filterUpTo(data.deleted_resources[1], currentDate) = <<>>
       THEN /\ alertMsg' = NoDataAlert
            /\ delivered' = <<>>
       ELSE LET filteredResources == filterUpTo(data.deleted_resources[1], currentDate)
            IN /\ alertMsg' = NoAlert
               /\ delivered' =
                     downloadJSON(allTimeDocument(filteredResources, currentDate),
                                  <<"costguardian-complete-log-", formatDate(currentDate),
                                    ".json">>)
    /\ UNCHANGED <<data, tz, rendered, availableMonths>>

\* click on "Download Complete Log (All Time)" at the instant currentDate
downloadAllLogs(currentDate) ==
    /\ rendered
    /\ lastCall' = [op |-> "downloadAllLogs", now |-> currentDate, monthYear |-> <<>>,
                    threw |-> FALSE]
    /\ IF NoResources
       THEN /\ alertMsg' = NoDataAlert
            /\ delivered' = <<>>
       ELSE LET filteredResources == filterUpTo(data.deleted_resources[1], currentDate)
            IN /\ alertMsg' = NoAlert
               /\ delivered' =
                     downloadJSON(allTimeDocument(filteredResources, currentDate),
                                  <<"costguardian-complete-log-", formatDate(currentDate),
                                    ".json">>)
    /\ UNCHANGED <<data, tz, rendered, availableMonths>>

\* click on the button of month monthYear; now is the instant of the export
downloadMonthLog(monthYear, now) ==
    /\ rendered
    /\ IF NoResources
       THEN /\ alertMsg' = NoDataAlert
            /\ delivered' = <<>>
            /\ lastCall' = [op |-> "downloadMonthLog", now |-> now, monthYear |-> monthYear,
                            threw |-> FALSE]
       ELSE LET filteredResources == filterMonth(data.deleted_resources[1], monthYear)
            IN IF Len(filteredResources) = 0
               THEN /\ alertMsg' = noMatchNotice(monthYear)
                    /\ delivered' = <<>>
                    /\ lastCall' = [op |-> "downloadMonthLog", now |-> now,
                                    monthYear |-> monthYear, threw |-> FALSE]
               ELSE IF startDate(monthYear).nan \/ endDate(monthYear).nan
               THEN \* startDate.toISOString() throws a RangeError
                    /\ alertMsg' = NoAlert
                    /\ delivered' = <<>>
                    /\ lastCall' = [op |-> "downloadMonthLog", now |-> now,
                                    monthYear |-> monthYear, threw |-> TRUE]
               ELSE /\ alertMsg' = NoAlert
                    /\ delivered' =
                          downloadJSON(monthDocument(filteredResources, monthYear, now),
                                       <<"costguardian-", YearPart(monthYear), "-",
                                         MonthPart(monthYear), "-log.json">>)
                    /\ lastCall' = [op |-> "downloadMonthLog", now |-> now,
                                    monthYear |-> monthYear, threw |-> FALSE]
    /\ UNCHANGED <<data, tz, rendered, availableMonths>>

Next ==
    \/ Render /\ UNCHANGED <<firstExport, calls, page>>
    \/ \E currentDate \in Nows :
          downloadAllLogs(currentDate) /\ UNCHANGED <<firstExport, calls, page>>
    \/ \E monthYear \in Range(availableMonths) \cup RequestMonths, now \in Nows :
          downloadMonthLog(monthYear, now) /\ UNCHANGED <<firstExport, calls, page>>

\* Scenario A of the specification: three events of March 2025 saving 10.00,
\* 20.00 and 5.00 a month, no annual_savings, in any order
ScenarioAEvents ==
    << Event(EC2, "i-a1", <<>>, IsoString(2025, 3, 1, 0, 0, 0, 0, FALSE),
             <<10000>>, <<>>, <<>>),
       Event(EBS, "vol-a2", <<>>, IsoString(2025, 3, 15, 10, 0, 0, 0, TRUE),
             <<20000>>, <<>>, <<>>),
       Event(S3, "bkt-a3", <<>>, IsoString(2025, 3, 31, 23, 59, 59, 0, FALSE),
             <<5000>>, <<>>, <<>>) >>

ScenarioACollections ==
    {[i \in 1..3 |-> ScenarioAEvents[p[i]]] :
        p \in {q \in [1..3 -> 1..3] : \A i, j \in 1..3 : q[i] = q[j] => i = j}}

InitScenarioA ==
    /\ data \in [deleted_resources : {<<c>> : c \in ScenarioACollections},
                 config_aws_region : {<<>>, <<"us-west-2">>}]
    /\ tz \in Zones
    /\ rendered = FALSE
    /\ availableMonths = <<>>
    /\ lastCall = NoCall
    /\ alertMsg = NoAlert
    /\ delivered = <<>>
    /\ firstExport = <<>>
    /\ calls = NoCalls
    /\ page = NoPage

SpecScenarioA == InitScenarioA /\ [][Next]_vars

\* Annual figures: collections over three events of January 2025, one
\* without annual_savings, one whose annual_savings is 60.00 more than twelve
\* times its monthly saving and one whose annual_savings is 60.00 less
AnnualEvents ==
    { Event(EC2, "i-1", <<"web">>, IsoString(2025, 1, 31, 23, 59, 59, 0, FALSE),
            <<10000>>, <<>>, <<"eu-west-1">>),
      Event(EBS, "vol-2", <<>>, IsoString(2025, 1, 31, 23, 59, 59, 500, FALSE),
            <<20000>>, <<300000>>, <<>>),
      Event(S3, "bkt-10", <<>>, IsoString(2025, 1, 15, 10, 0, 0, 0, TRUE),
            <<10000>>, <<60000>>, <<>>) }

AnnualCollections == UNION {[1..n -> AnnualEvents] : n \in 0..MaxEvents}

InitAnnual ==
    /\ data \in [deleted_resources : {<<c>> : c \in AnnualCollections},
                 config_aws_region : {<<>>, <<"us-west-2">>}]
    /\ tz \in Zones
    /\ rendered = FALSE
    /\ availableMonths = <<>>
    /\ lastCall = NoCall
    /\ alertMsg = NoAlert
    /\ delivered = <<>>
    /\ firstExport = <<>>
    /\ calls = NoCalls
    /\ page = NoPage

SpecAnnual == InitAnnual /\ [][Next]_vars

Spec == Init /\ [][Next]_vars

\* What an export request is made of: the mode with the as-of instant
\* (ALL_TIME) or the requested month (SINGLE_MONTH)
Request ==
    IF lastCall.op = "downloadAllLogs"
    THEN [op |-> lastCall.op, now |-> lastCall.now, monthYear |-> <<>>]
    ELSE [op |-> lastCall.op, now |-> NoCall.now, monthYear |-> lastCall.monthYear]

\* What the request yielded: the notice, and the file handed to the browser
\* without its export timestamp
Outcome ==
    [alertMsg |-> alertMsg,
     threw |-> lastCall.threw,
     delivered |->
        IF delivered = <<>> THEN <<>>
        ELSE <<[delivered[1] EXCEPT !.exportData.export_info.export_date = <<>>]>>]

\* the first export request of a run is recorded with what it yielded
Observe ==
    firstExport' =
        IF firstExport = <<>>
        THEN <<[request |-> Request', outcome |-> Outcome', at |-> lastCall'.now]>>
        ELSE firstExport

\* Repeated exports: collections over three events of the pool (the last
\* second of January, the first of February, a string that is no date),
\* any sequence of export requests, the first one recorded
RepeatCollections ==
    {c \in Collections :
        \A i \in 1..Len(c) : c[i].resource_id \in {"i-1", "i-3", "bkt-9"}}

InitRepeat ==
    /\ data \in [deleted_resources : {<<>>} \cup {<<c>> : c \in RepeatCollections},
                 config_aws_region : {<<>>, <<"us-west-2">>}]
    /\ tz \in Zones
    /\ rendered = FALSE
    /\ availableMonths = <<>>
    /\ lastCall = NoCall
    /\ alertMsg = NoAlert
    /\ delivered = <<>>
    /\ firstExport = <<>>
    /\ calls = NoCalls
    /\ page = NoPage

NextRepeat ==
    \/ Render /\ UNCHANGED <<firstExport, calls, page>>
    \/ \E currentDate \in Nows :
          downloadAllLogs(currentDate) /\ Observe /\ UNCHANGED <<calls, page>>
    \/ \E monthYear \in Range(availableMonths) \cup RequestMonths, now \in Nows :
          downloadMonthLog(monthYear, now) /\ Observe /\ UNCHANGED <<calls, page>>

SpecRepeat == InitRepeat /\ [][NextRepeat]_vars

-----------------------------------------------------------------------------
(* Concurrent callers.  A handler invocation is taken apart into its steps *)
(* (the filter, the iterations of the reduce of the monthly total, the     *)
(* iterations of the forEach of getBreakdownByType, the assembly of the    *)
(* document), and the steps of the callers interleave.  Every invocation   *)
(* has its own local variables.                                            *)

\* variant: one breakdown object at module level, used by every invocation
breakdownOf_shared(c) == 1

\* const breakdown = {} is created by each invocation of getBreakdownByType:
\* the invocation of caller c accumulates in its own object
breakdownOf(c) == c

\* what the handler yields for a request when nothing else runs
RunAlone(op, monthYear, now) ==
    IF NoResources THEN [alertMsg |-> NoDataAlert, delivered |-> <<>>]
    ELSE IF op = "downloadAllLogs"
    THEN [alertMsg |-> NoAlert,
          delivered |->
             downloadJSON(allTimeDocument(filterUpTo(data.deleted_resources[1], now), now),
                          <<"costguardian-complete-log-", formatDate(now), ".json">>)]
    ELSE IF Len(filterMonth(data.deleted_resources[1], monthYear)) = 0
    THEN [alertMsg |-> noMatchNotice(monthYear), delivered |-> <<>>]
    ELSE [alertMsg |-> NoAlert,
          delivered |->
             downloadJSON(monthDocument(filterMonth(data.deleted_resources[1], monthYear),
                                        monthYear, now),
                          <<"costguardian-", YearPart(monthYear), "-", MonthPart(monthYear),
                            "-log.json">>)]

Running(c) == calls[c].pc \notin {"idle", "done"}

\* caller c clicks a button: the guard and the filter
Call(c, op, monthYear, now) ==
    /\ calls[c].pc = "idle"
    /\ LET filteredResources ==
              IF NoResources THEN <<>>
              ELSE IF op = "downloadAllLogs"
              THEN filterUpTo(data.deleted_resources[1], now)
              ELSE filterMonth(data.deleted_resources[1], monthYear)
           overlap == \E d \in Callers \ {c} : Running(d)
           started == [calls[c] EXCEPT !.op = op, !.monthYear = monthYear, !.now = now,
                                       !.overlapped = overlap]
       IN calls' =
            [d \in Callers |->
               IF d # c
               THEN [calls[d] EXCEPT !.overlapped = calls[d].overlapped \/ Running(d)]
               ELSE IF NoResources
               THEN [started EXCEPT !.pc = "done", !.alertMsg = NoDataAlert]
               ELSE IF op = "downloadMonthLog" /\ Len(filteredResources) = 0
               THEN [started EXCEPT !.pc = "done", !.alertMsg = noMatchNotice(monthYear)]
               ELSE [started EXCEPT !.pc = "reduce", !.filteredResources = filteredResources,
                                    !.i = 0, !.sum = 0]]
    /\ UNCHANGED <<data, tz, rendered, availableMonths, lastCall, alertMsg, delivered,
                   firstExport, page>>

\* one iteration of filteredResources.reduce((sum, r) => sum + (r.monthly_savings || 0), 0);
\* after the last one getBreakdownByType is entered and creates its object
ReduceStep(c) ==
    /\ calls[c].pc = "reduce"
    /\ calls' =
          IF calls[c].i < Len(calls[c].filteredResources)
          THEN [calls EXCEPT
                  ![c].sum = @ + OrZero(calls[c].filteredResources[calls[c].i + 1].monthly_savings),
                  ![c].i = @ + 1]
          ELSE [calls EXCEPT ![breakdownOf(c)].breakdown = <<>>,
                             ![c].pc = "forEach",
                             ![c].i = 0]
    /\ UNCHANGED <<data, tz, rendered, availableMonths, lastCall, alertMsg, delivered,
                   firstExport, page>>

\* one iteration of resources.forEach(...) in getBreakdownByType
ForEachStep(c) ==
    /\ calls[c].pc = "forEach"
    /\ calls' =
          IF calls[c].i < Len(calls[c].filteredResources)
          THEN LET resource == calls[c].filteredResources[calls[c].i + 1]
               IN [calls EXCEPT
                     ![breakdownOf(c)].breakdown = AddTo(@, resource.resource_type, resource),
                     ![c].i = @ + 1]
          ELSE [calls EXCEPT ![c].pc = "assemble"]
    /\ UNCHANGED <<data, tz, rendered, availableMonths, lastCall, alertMsg, delivered,
                   firstExport, page>>

\* the document is assembled from the locals and handed to downloadJSON
Assemble(c) ==
    /\ calls[c].pc = "assemble"
    /\ LET me == calls[c]
           whole == IF me.op = "downloadAllLogs"
                    THEN allTimeDocument(me.filteredResources, me.now)
                    ELSE monthDocument(me.filteredResources, me.monthYear, me.now)
           exportData ==
              [whole EXCEPT
                 !.export_info.total_monthly_savings = toFixed(me.sum),
                 !.summary.breakdown_by_type = typeEntries(calls[breakdownOf(c)].breakdown)]
           filename == IF me.op = "downloadAllLogs"
                       THEN <<"costguardian-complete-log-", formatDate(me.now), ".json">>
                       ELSE <<"costguardian-", YearPart(me.monthYear), "-",
                              MonthPart(me.monthYear), "-log.json">>
       IN calls' = [calls EXCEPT ![c].pc = "done",
                                 ![c].delivered = downloadJSON(exportData, filename)]
    /\ UNCHANGED <<data, tz, rendered, availableMonths, lastCall, alertMsg, delivered,
                   firstExport, page>>

\* the collections the callers export: two events of one type in January
\* and one in February; three events around a year change
ConcurrentCollections ==
    {c \in [1..3 -> Pool] :
        \/ <<c[1].resource_id, c[2].resource_id, c[3].resource_id>> = <<"i-1", "vol-2", "i-3">>
        \/ <<c[1].resource_id, c[2].resource_id, c[3].resource_id>> = <<"vol-5", "vol-8", "vol-5">>}

InitConcurrent ==
    /\ data \in [deleted_resources : {<<>>} \cup {<<c>> : c \in ConcurrentCollections},
                 config_aws_region : {<<"us-west-2">>}]
    /\ tz \in Zones
    /\ rendered = TRUE
    /\ availableMonths = getAvailableMonths
    /\ lastCall = NoCall
    /\ alertMsg = NoAlert
    /\ delivered = <<>>
    /\ firstExport = <<>>
    /\ calls = NoCalls
    /\ page = NoPage

NextConcurrent ==
    \/ \E c \in Callers, currentDate \in Nows : Call(c, "downloadAllLogs", <<>>, currentDate)
    \/ \E c \in Callers, monthYear \in Range(availableMonths) \cup RequestMonths, now \in Nows :
          Call(c, "downloadMonthLog", monthYear, now)
    \/ \E c \in Callers : ReduceStep(c)
    \/ \E c \in Callers : ForEachStep(c)
    \/ \E c \in Callers : Assemble(c)

SpecConcurrent == InitConcurrent /\ [][NextConcurrent]_vars

-----------------------------------------------------------------------------
(* The dashboard page: fetchData, run on mount and then every five minutes, *)
(* and the log downloader it renders once it has data.                      *)

\* what fetch("/config.json") and .json() may give: a rejection or a parse
\* error, a configuration without user_info, a configuration with it
ConfigResults ==
    { [ok |-> FALSE, user_info |-> <<>>],
      [ok |-> TRUE, user_info |-> <<>>],
      [ok |-> TRUE, user_info |-> <<[github_repo |-> "owner/repo", aws_region |-> "us-west-2"]>>] }

\* the documents data.json may hold
DataBodies ==
    { [overview |-> [total_resources |-> 4, resources_deleted |-> Len(c), monthly_savings |-> 5000,
                     annual_savings |-> 60000, active_resources |-> 3, idle_resources |-> 1],
       breakdown |-> <<>>,
       deleted_resources |-> c] :
         c \in { <<CHOOSE e \in Pool : e.resource_id = "i-3">>,
                 <<CHOOSE e \in Pool : e.resource_id = "i-3",
                   CHOOSE e \in Pool : e.resource_id = "vol-8">> } }

\* what fetch(dataUrl) may give: a rejection, or a response with a document
DataResults ==
    {[ok |-> FALSE, body |-> <<>>]} \cup {[ok |-> TRUE, body |-> <<b>>] : b \in DataBodies}

\* the object of the catch block
Fallback ==
    [overview |-> [total_resources |-> 0, resources_deleted |-> 0, monthly_savings |-> 0,
                   annual_savings |-> 0, active_resources |-> 0, idle_resources |-> 0],
     breakdown |-> <<>>,
     deleted_resources |-> <<>>,
     config |-> [aws_account_id |-> "941431936794", aws_region |-> "us-east-1"]]

\* <LogDownloader data={data} />: what the component reads of the page's data
PropsOf(pageData) ==
    [deleted_resources |-> <<pageData.deleted_resources>>,
     config_aws_region |-> <<pageData.config.aws_region>>]

\* fetchData() is called: on mount, and by the interval after a run
StartFetch ==
    /\ page.pc \in {"mount", "settled"}
    /\ page' = [page EXCEPT !.pc = "config", !.config = <<>>, !.dataResponse = <<>>,
                            !.failed = FALSE]
    /\ UNCHANGED <<data, tz, rendered, availableMonths, lastCall, alertMsg, delivered,
                   firstExport, calls>>

\* await fetch("/config.json"), await configResponse.json(), and the URL
\* built from config.user_info.github_repo (a TypeError without user_info)
ConfigResponse(r) ==
    /\ page.pc = "config"
    /\ page' = IF ~r.ok THEN [page EXCEPT !.pc = "catch"]
               ELSE IF r.user_info = <<>> THEN [page EXCEPT !.pc = "catch", !.config = <<r>>]
               ELSE [page EXCEPT !.pc = "data", !.config = <<r>>]
    /\ UNCHANGED <<data, tz, rendered, availableMonths, lastCall, alertMsg, delivered,
                   firstExport, calls>>

\* await fetch(dataUrl, ...)
DataResponse(r) ==
    /\ page.pc = "data"
    /\ page' = IF ~r.ok THEN [page EXCEPT !.pc = "catch"]
               ELSE [page EXCEPT !.pc = "json", !.dataResponse = <<r>>]
    /\ UNCHANGED <<data, tz, rendered, availableMonths, lastCall, alertMsg, delivered,
                   firstExport, calls>>

\* const jsonData = await jsonResponse.json(): no jsonResponse is declared
\* (the response is dataResponse), so the line throws a ReferenceError and
\* setData({...jsonData, config: config.user_info}) is never reached
ReadJson ==
    /\ page.pc = "json"
    /\ page' = [page EXCEPT !.pc = "catch"]
    /\ UNCHANGED <<data, tz, rendered, availableMonths, lastCall, alertMsg, delivered,
                   firstExport, calls>>

\* variant: the catch block only logs the error
Catch_logOnly ==
    /\ page.pc = "catch"
    /\ page' = [page EXCEPT !.pc = "finally", !.failed = TRUE]
    /\ UNCHANGED <<data, tz, rendered, availableMonths, lastCall, alertMsg, delivered,
                   firstExport, calls>>

\* catch (err): setData(fallback); the log downloader gets the new data
Catch ==
    /\ page.pc = "catch"
    /\ page' = [page EXCEPT !.pc = "finally", !.failed = TRUE, !.data = <<Fallback>>]
    /\ data' = PropsOf(Fallback)
    /\ rendered' = FALSE
    /\ availableMonths' = <<>>
    /\ UNCHANGED <<tz, lastCall, alertMsg, delivered, firstExport, calls>>

\* finally: setLoading(false)
Finally ==
    /\ page.pc = "finally"
    /\ page' = [page EXCEPT !.pc = "settled", !.loading = FALSE]
    /\ UNCHANGED <<data, tz, rendered, availableMonths, lastCall, alertMsg, delivered,
                   firstExport, calls>>

\* the steps of a run of fetchData after its call
FetchStep ==
    \/ \E r \in ConfigResults : ConfigResponse(r)
    \/ \E r \in DataResults : DataResponse(r)
    \/ ReadJson
    \/ Catch
    \/ Finally

InitDashboard ==
    /\ data = [deleted_resources |-> <<>>, config_aws_region |-> <<>>]
    /\ tz \in Zones
    /\ rendered = FALSE
    /\ availableMonths = <<>>
    /\ lastCall = NoCall
    /\ alertMsg = NoAlert
    /\ delivered = <<>>
    /\ firstExport = <<>>
    /\ calls = NoCalls
    /\ page = NoPage

\* if (loading) return <loading screen>; {data && <LogDownloader data={data} />}
NextDashboard ==
    \/ StartFetch
    \/ \E r \in ConfigResults : ConfigResponse(r)
    \/ \E r \in DataResults : DataResponse(r)
    \/ ReadJson
    \/ Catch
    \/ Finally
    \/ /\ ~page.loading
       /\ page.data # <<>>
       /\ \/ Render /\ UNCHANGED <<firstExport, calls, page>>
          \/ \E currentDate \in Nows :
                downloadAllLogs(currentDate) /\ UNCHANGED <<firstExport, calls, page>>
          \/ \E monthYear \in Range(availableMonths) \cup RequestMonths, now \in Nows :
                downloadMonthLog(monthYear, now) /\ UNCHANGED <<firstExport, calls, page>>

\* a pending fetch resolves or rejects, and the continuation of an await runs
SpecDashboard == InitDashboard /\ [][NextDashboard]_vars /\ WF_vars(FetchStep)

-----------------------------------------------------------------------------
(* Vocabulary of the properties.  These definitions restate the calendar   *)
(* from the timestamp strings themselves; they are not used by the model   *)
(* of the code above.                                                      *)

\* the collection, empty when absent
Resources == IF data.deleted_resources = <<>> THEN <<>> ELSE data.deleted_resources[1]

AllParse == \A i \in 1..Len(Resources) : Resources[i].deleted_at.valid

\* seconds of the timestamp's own calendar fields, counted as if UTC
WallSeconds(at) == MakeDay(at.Y, at.M - 1, at.D) * 86400 + MakeTime(at.h, at.mi, at.s)

OwnFields(at) ==
    [Y |-> at.Y, M |-> at.M, D |-> at.D, h |-> at.h, mi |-> at.mi, s |-> at.s, ms |-> at.ms]

\* the local calendar fields of a timestamp: its own fields when it carries
\* no offset, the fields of the shifted instant when it ends in Z
LocalCalendar(at) ==
    IF at.z THEN Fields(WallSeconds(at) + tz * 60, at.ms) ELSE OwnFields(at)

\* the UTC calendar fields of a timestamp
UtcCalendar(at) ==
    IF at.z THEN OwnFields(at) ELSE Fields(WallSeconds(at) - tz * 60, at.ms)

\* calendar order: a is not later than b
CalendarLE(a, b) ==
    LET ka == <<a.Y, a.M, a.D, a.h, a.mi, a.s, a.ms>>
        kb == <<b.Y, b.M, b.D, b.h, b.mi, b.s, b.ms>>
    IN \/ ka = kb
       \/ \E i \in 1..7 : ka[i] < kb[i] /\ \A j \in 1..(i - 1) : ka[j] = kb[j]

\* a key of the form dddd-dd, and the year and month it denotes
WellFormedKey(k) ==
    /\ Len(k) = 7
    /\ k[5] = 45
    /\ \A i \in {1, 2, 3, 4, 6, 7} : IsDigit(k[i])

KeyYear(k) == 1000 * Digit(k[1]) + 100 * Digit(k[2]) + 10 * Digit(k[3]) + Digit(k[4])

KeyMonth(k) == 10 * Digit(k[6]) + Digit(k[7])

KeyText(y, m) ==
    <<48 + ((y \div 1000) % 10), 48 + ((y \div 100) % 10), 48 + ((y \div 10) % 10),
      48 + (y % 10), 45, 48 + (m \div 10), 48 + (m % 10)>>

LastDayOf(y, m) ==
    IF m = 2 THEN (IF InLeapYear(y) THEN 29 ELSE 28)
    ELSE IF m \in {4, 6, 9, 11} THEN 30 ELSE 31

\* the event lies in month m of year y, not after 23:59:59.000 of its last day
InWindow(e, y, m) ==
    /\ e.deleted_at.valid
    /\ LET c == LocalCalendar(e.deleted_at)
       IN /\ c.Y = y
          /\ c.M = m
          /\ ~(c.D = LastDayOf(y, m) /\ c.h = 23 /\ c.mi = 59 /\ c.s = 59 /\ c.ms > 0)

\* the events of the collection that satisfy the flags, in collection order
RECURSIVE Chosen(_, _)
Chosen(rs, flags) ==
    IF rs = <<>> THEN <<>>
    ELSE Chosen(SubSeq(rs, 1, Len(rs) - 1), SubSeq(flags, 1, Len(rs) - 1))
           \o (IF flags[Len(rs)] THEN <<rs[Len(rs)]>> ELSE <<>>)

Ids(rs) == [i \in 1..Len(rs) |-> rs[i].resource_id]

Delivered == delivered # <<>>

Doc == delivered[1].exportData

AllTimeCall == lastCall.op = "downloadAllLogs"

MonthCall == lastCall.op = "downloadMonthLog"

\* the events an export of the requested month has to select
InMonth ==
    Chosen(Resources, [i \in 1..Len(Resources) |->
                          InWindow(Resources[i], KeyYear(lastCall.monthYear),
                                   KeyMonth(lastCall.monthYear))])

\* the events an export up to the as-of instant has to select
UpToNow ==
    Chosen(Resources, [i \in 1..Len(Resources) |->
                          /\ Resources[i].deleted_at.valid
                          /\ CalendarLE(UtcCalendar(Resources[i].deleted_at),
                                        Fields(lastCall.now.s, lastCall.now.ms))])

-----------------------------------------------------------------------------
(* Properties                                                              *)

\* C1: after discovery over a collection whose timestamps all parse, the
\* months offered are exactly the zero-padded YYYY-MM keys of the local
\* calendar months of the events, each once, most recent first; none for
\* an empty or absent collection.
C1_DiscoverBuckets ==
    (rendered /\ AllParse) =>
        /\ \A i \in 1..Len(availableMonths) : WellFormedKey(availableMonths[i])
        /\ \A i \in 1..Len(availableMonths) : \A j \in (i + 1)..Len(availableMonths) :
              12 * KeyYear(availableMonths[i]) + KeyMonth(availableMonths[i])
                > 12 * KeyYear(availableMonths[j]) + KeyMonth(availableMonths[j])
        /\ Range(availableMonths) =
              {KeyText(LocalCalendar(Resources[i].deleted_at).Y,
                       LocalCalendar(Resources[i].deleted_at).M) : i \in 1..Len(Resources)}

\* two events of one local month, written in different forms, give one key
C1_Witness ==
    /\ rendered
    /\ AllParse
    /\ Len(Resources) = 2
    /\ Resources[1].deleted_at.z # Resources[2].deleted_at.z
    /\ Len(availableMonths) = 1

\* C2: an export of a requested month selects exactly the events whose
\* local time lies between day 1, 00:00:00 and the last day, 23:59:59 of
\* that month, both included; nothing is delivered when there are none.
C2_FilterMonth ==
    (MonthCall /\ ~NoResources /\ WellFormedKey(lastCall.monthYear)) =>
        IF InMonth = <<>> THEN ~Delivered
        ELSE /\ Delivered
             /\ Ids(Doc.deleted_resources) = Ids(InMonth)

\* the event at 23:59:59.000 of the last day is exported, the one half a
\* second later is not
C2_Witness ==
    /\ MonthCall
    /\ Delivered
    /\ Len(Resources) = 2
    /\ Len(Doc.deleted_resources) = 1
    /\ \E i \in 1..2 : LET c == LocalCalendar(Resources[i].deleted_at)
                        IN Resources[i].deleted_at.valid /\ c.D = 31 /\ c.h = 23 /\ c.mi = 59
                           /\ c.s = 59 /\ c.ms = 500
    /\ LET c == LocalCalendar(Doc.deleted_resources[1].deleted_at)
       IN c.D = 31 /\ c.h = 23 /\ c.mi = 59 /\ c.s = 59 /\ c.ms = 0

\* C3: the records of an ALL_TIME export are exactly the events not later
\* than the as-of instant, in the order of the collection.
C3_FilterUpTo ==
    (AllTimeCall /\ ~NoResources) =>
        /\ Delivered
        /\ Ids(Doc.deleted_resources) = Ids(UpToNow)

\* an event at the as-of instant is exported, a later one is not
C3_Witness ==
    /\ AllTimeCall
    /\ Delivered
    /\ Len(Resources) = 2
    /\ Len(Doc.deleted_resources) = 1
    /\ UtcCalendar(Doc.deleted_resources[1].deleted_at) = Fields(lastCall.now.s, lastCall.now.ms)
    /\ Resources[1].deleted_at.valid
    /\ Resources[2].deleted_at.valid

\* the events the last export had to select
Selected == IF AllTimeCall THEN UpToNow ELSE InMonth

\* the number of cents a text d...d.dd denotes, -1 when it has another form
CentsOf(str) ==
    IF /\ Len(str) >= 4
       /\ str[Len(str) - 2] = 46
       /\ \A i \in (1..Len(str)) \ {Len(str) - 2} : IsDigit(str[i])
    THEN 100 * DigitsValue(SubSeq(str, 1, Len(str) - 3), 0)
           + 10 * Digit(str[Len(str) - 1]) + Digit(str[Len(str)])
    ELSE -1

\* str is amount (in thousandths) rendered with two decimals, to the nearest
RendersAmount(str, amount) ==
    /\ CentsOf(str) >= 0
    /\ amount - 5 < 10 * CentsOf(str)
    /\ 10 * CentsOf(str) <= amount + 5

\* an event's annual saving as the data model defines it
StatedAnnual(e) ==
    IF e.annual_savings # <<>> THEN e.annual_savings[1]
    ELSE IF e.monthly_savings # <<>> THEN 12 * e.monthly_savings[1]
    ELSE 0

StatedMonthly(e) == IF e.monthly_savings # <<>> THEN e.monthly_savings[1] ELSE 0

RECURSIVE TotalStatedAnnual(_)
TotalStatedAnnual(rs) ==
    IF rs = <<>> THEN 0 ELSE StatedAnnual(rs[1]) + TotalStatedAnnual(Tail(rs))

RECURSIVE TotalStatedMonthly(_)
TotalStatedMonthly(rs) ==
    IF rs = <<>> THEN 0 ELSE StatedMonthly(rs[1]) + TotalStatedMonthly(Tail(rs))

\* C4: in an ALL_TIME document date_range.to is the as-of instant and
\* date_range.from is the instant of the oldest selected event, or the as-of
\* instant when none is selected, whatever the order of the collection.
\* (Violated: the code takes the last selected event for the oldest.)
C4_DateRangeOldest ==
    (AllTimeCall /\ Delivered) =>
        /\ OwnFields(Doc.export_info.date_range.to) = Fields(lastCall.now.s, lastCall.now.ms)
        /\ IF UpToNow = <<>>
           THEN OwnFields(Doc.export_info.date_range.from)
                  = Fields(lastCall.now.s, lastCall.now.ms)
           ELSE \E i \in 1..Len(UpToNow) :
                  /\ OwnFields(Doc.export_info.date_range.from)
                       = UtcCalendar(UpToNow[i].deleted_at)
                  /\ \A j \in 1..Len(UpToNow) :
                        CalendarLE(UtcCalendar(UpToNow[i].deleted_at),
                                   UtcCalendar(UpToNow[j].deleted_at))

\* C5: total_annual_savings is the sum, over the selected events, of
\* annual_savings when the field is present (0 included) and of
\* 12 * monthly_savings when it is absent.
\* (Violated: the code takes a present annual_savings of 0 for absent.)
C5_AnnualTotal ==
    Delivered =>
        RendersAmount(Doc.export_info.total_annual_savings, TotalStatedAnnual(Selected))

\* C6: total_monthly_savings is the sum of monthly_savings over the
\* selected events, an absent one counting 0, with two decimals.
C6_MonthlyTotal ==
    Delivered =>
        RendersAmount(Doc.export_info.total_monthly_savings, TotalStatedMonthly(Selected))

\* a total over two events, one of them without monthly_savings
C6_Witness ==
    /\ Delivered
    /\ Len(Selected) = 2
    /\ \E i, j \in 1..2 : /\ Selected[i].monthly_savings = <<>>
                          /\ Selected[j].monthly_savings # <<>>
                          /\ Selected[j].monthly_savings[1] > 0
    /\ CentsOf(Doc.export_info.total_monthly_savings) > 0

RECURSIVE CountSum(_)
CountSum(entries) ==
    IF entries = <<>> THEN 0 ELSE entries[1].count + CountSum(Tail(entries))

\* C7: total_resources is the sum of the counts of breakdown_by_type, and
\* of breakdown_by_month (ALL_TIME) or breakdown_by_day (SINGLE_MONTH).
C7_CountConservation ==
    Delivered =>
        /\ Doc.export_info.total_resources = CountSum(Doc.summary.breakdown_by_type)
        /\ AllTimeCall =>
              Doc.export_info.total_resources = CountSum(Doc.summary.breakdown_by_month)
        /\ MonthCall =>
              Doc.export_info.total_resources = CountSum(Doc.summary.breakdown_by_day)

\* two events share one type entry and one day entry
C7_Witness ==
    /\ Delivered
    /\ MonthCall
    /\ Doc.export_info.total_resources = 2
    /\ Len(Doc.summary.breakdown_by_type) = 1
    /\ Len(Doc.summary.breakdown_by_day) = 1

MonthNameOf(m) ==
    CASE m = 1 -> "January" [] m = 2 -> "February" [] m = 3 -> "March" [] m = 4 -> "April"
      [] m = 5 -> "May" [] m = 6 -> "June" [] m = 7 -> "July" [] m = 8 -> "August"
      [] m = 9 -> "September" [] m = 10 -> "October" [] m = 11 -> "November"
      [] m = 12 -> "December" [] OTHER -> "?"

\* C8: a month export over a non-empty collection with no event in the
\* month's window raises the notice naming the month and the year, and
\* hands no document to the download step.
C8_NoMatchInRange ==
    (MonthCall /\ ~NoResources /\ WellFormedKey(lastCall.monthYear) /\ InMonth = <<>>) =>
        /\ alertMsg.kind = "No resources deleted in"
        /\ alertMsg.month = MonthNameOf(KeyMonth(lastCall.monthYear))
        /\ alertMsg.year = SubSeq(lastCall.monthYear, 1, 4)
        /\ ~Delivered

\* a month offered by discovery is requested and matches nothing
C8_Witness ==
    /\ MonthCall
    /\ Len(Resources) > 0
    /\ lastCall.monthYear \in Range(availableMonths)
    /\ WellFormedKey(lastCall.monthYear)
    /\ alertMsg.kind = "No resources deleted in"
    /\ ~Delivered

\* C9: with an empty or absent collection an export request of either mode
\* raises the 'no data available' notice and delivers no document.
C9_EmptyInput ==
    (lastCall.op # "none" /\ Len(Resources) = 0) =>
        /\ alertMsg.kind = "No deleted resources data available to download."
        /\ ~Delivered

\* a month export over a collection that is present and empty
C9_Witness ==
    /\ MonthCall
    /\ data.deleted_resources = <<(<<>>)>>
    /\ alertMsg.kind = "No deleted resources data available to download."
    /\ ~Delivered

\* C10: the entries of breakdown_by_type are in ascending order of the
\* resource type.  (Violated: the code keeps the order of first occurrence.)
C10_TypeOrder ==
    Delivered =>
        \A i \in 1..Len(Doc.summary.breakdown_by_type) :
            \A j \in (i + 1)..Len(Doc.summary.breakdown_by_type) :
                StrLess(Doc.summary.breakdown_by_type[i].type,
                        Doc.summary.breakdown_by_type[j].type)

\* the number of the month a month name denotes, 0 for any other text
MonthNumberOf(name) ==
    IF \E m \in 1..12 : MonthNameOf(m) = name
    THEN CHOOSE m \in 1..12 : MonthNameOf(m) = name
    ELSE 0

\* a text of the form dddd-dd-dd and the day number it orders by
WellFormedDay(k) ==
    /\ Len(k) = 10
    /\ k[5] = 45
    /\ k[8] = 45
    /\ \A i \in {1, 2, 3, 4, 6, 7, 9, 10} : IsDigit(k[i])

DayOrdinal(k) ==
    (12 * KeyYear(k) + 10 * Digit(k[6]) + Digit(k[7])) * 32 + 10 * Digit(k[9]) + Digit(k[10])

MonthOrdinal(entry) == 12 * DigitsValue(entry.year, 0) + MonthNumberOf(entry.month)

\* C11: the entries of breakdown_by_month are in ascending order of (year,
\* month) and those of breakdown_by_day in ascending order of date, no key
\* twice, whatever the order of the collection.
C11_TimeOrder ==
    Delivered =>
        /\ AllTimeCall =>
              /\ \A i \in 1..Len(Doc.summary.breakdown_by_month) :
                    /\ MonthNumberOf(Doc.summary.breakdown_by_month[i].month) > 0
                    /\ Len(Doc.summary.breakdown_by_month[i].year) = 4
              /\ \A i \in 1..Len(Doc.summary.breakdown_by_month) :
                    \A j \in (i + 1)..Len(Doc.summary.breakdown_by_month) :
                        MonthOrdinal(Doc.summary.breakdown_by_month[i])
                            < MonthOrdinal(Doc.summary.breakdown_by_month[j])
        /\ MonthCall =>
              /\ \A i \in 1..Len(Doc.summary.breakdown_by_day) :
                    WellFormedDay(Doc.summary.breakdown_by_day[i].date)
              /\ \A i \in 1..Len(Doc.summary.breakdown_by_day) :
                    \A j \in (i + 1)..Len(Doc.summary.breakdown_by_day) :
                        DayOrdinal(Doc.summary.breakdown_by_day[i].date)
                            < DayOrdinal(Doc.summary.breakdown_by_day[j].date)

\* the later month comes first in the collection and second in the breakdown
C11_Witness ==
    /\ Delivered
    /\ AllTimeCall
    /\ Len(Resources) = 2
    /\ Len(Doc.summary.breakdown_by_month) = 2
    /\ Resources[1].deleted_at.valid
    /\ Resources[2].deleted_at.valid
    /\ ~CalendarLE(UtcCalendar(Resources[1].deleted_at), UtcCalendar(Resources[2].deleted_at))
    /\ LocalCalendar(Resources[1].deleted_at).Y > LocalCalendar(Resources[2].deleted_at).Y

\* the document the last request yields over the collection rs
DocumentOver(rs) ==
    IF AllTimeCall THEN allTimeDocument(filterUpTo(rs, lastCall.now), lastCall.now)
    ELSE monthDocument(filterMonth(rs, lastCall.monthYear), lastCall.monthYear, lastCall.now)

\* C12: the same request over the collection in another order (here: the
\* reverse order) yields the same totals, the same date_range and the same
\* summary breakdowns, entry by entry.
\* (Violated: date_range.from and the order of breakdown_by_type follow the
\* order of the collection.)
C12_OrderIrrelevance ==
    Delivered =>
        /\ DocumentOver(reverse(Resources)).export_info = Doc.export_info
        /\ DocumentOver(reverse(Resources)).summary = Doc.summary

\* the collection is three events of local March 2025 that save 10.00, 20.00
\* and 5.00 a month and carry no annual_savings
IsScenarioA ==
    /\ Len(Resources) = 3
    /\ \A i \in 1..3 :
          /\ Resources[i].deleted_at.valid
          /\ LocalCalendar(Resources[i].deleted_at).Y = 2025
          /\ LocalCalendar(Resources[i].deleted_at).M = 3
          /\ Resources[i].annual_savings = <<>>
    /\ \E i, j, k \in 1..3 :
          /\ {i, j, k} = {1, 2, 3}
          /\ Resources[i].monthly_savings = <<10000>>
          /\ Resources[j].monthly_savings = <<20000>>
          /\ Resources[k].monthly_savings = <<5000>>

\* C13: Scenario A.  The ALL_TIME document of those three events, none
\* later than the as-of instant, has total_resources 3, total_monthly_savings
\* "35.00", total_annual_savings "420.00" and a single breakdown_by_month
\* entry: March, "2025", count 3, "$35.00".
C13_ScenarioA ==
    (IsScenarioA /\ AllTimeCall /\ Len(UpToNow) = 3) =>
        /\ Delivered
        /\ Doc.export_info.total_resources = 3
        /\ Doc.export_info.total_monthly_savings = <<51, 53, 46, 48, 48>>
        /\ Doc.export_info.total_annual_savings = <<52, 50, 48, 46, 48, 48>>
        /\ Len(Doc.summary.breakdown_by_month) = 1
        /\ Doc.summary.breakdown_by_month[1].month = "March"
        /\ Doc.summary.breakdown_by_month[1].year = <<50, 48, 50, 53>>
        /\ Doc.summary.breakdown_by_month[1].count = 3
        /\ Doc.summary.breakdown_by_month[1].monthly_savings = <<36, 51, 53, 46, 48, 48>>

C13_Witness ==
    /\ IsScenarioA
    /\ AllTimeCall
    /\ Len(UpToNow) = 3
    /\ Delivered
    /\ Doc.export_info.total_resources = 3

\* C14: the summary of an ALL_TIME document holds breakdown_by_type and
\* breakdown_by_month and nothing else; the summary of a SINGLE_MONTH
\* document holds breakdown_by_type and breakdown_by_day and nothing else.
C14_SummaryByMode ==
    Delivered =>
        /\ "breakdown_by_type" \in DOMAIN Doc.summary
        /\ AllTimeCall => DOMAIN Doc.summary = {"breakdown_by_type", "breakdown_by_month"}
        /\ MonthCall => DOMAIN Doc.summary = {"breakdown_by_type", "breakdown_by_day"}

\* a month document with a day entry and a type entry
C14_Witness ==
    /\ Delivered
    /\ MonthCall
    /\ "breakdown_by_day" \in DOMAIN Doc.summary
    /\ Len(Doc.summary.breakdown_by_day) = 2
    /\ Len(Doc.summary.breakdown_by_type) = 2

\* entries (given by their keys, counts and savings texts) group the
\* selected events (given by their keys): one entry for each key that
\* occurs, with the number of its events and the "$" rendering of the sum
\* of their monthly savings
GroupsSelected(entryKeys, counts, texts, eventKeys) ==
    /\ Len(entryKeys) = Cardinality(Range(eventKeys))
    /\ Range(entryKeys) = Range(eventKeys)
    /\ \A j \in 1..Len(entryKeys) :
          LET members == Chosen(Selected, [i \in 1..Len(Selected) |->
                                              eventKeys[i] = entryKeys[j]])
          IN /\ counts[j] = Len(members)
             /\ Len(texts[j]) > 1
             /\ texts[j][1] = 36
             /\ RendersAmount(Tail(texts[j]), TotalStatedMonthly(members))

\* the rank of the local month, and of the UTC day, of a timestamp
LocalMonthOrdinal(at) == 12 * LocalCalendar(at).Y + LocalCalendar(at).M

UtcDayOrdinal(at) ==
    (12 * UtcCalendar(at).Y + UtcCalendar(at).M) * 32 + UtcCalendar(at).D

\* C15: each breakdown of a document has exactly one entry for each key
\* that occurs among the selected events (the resource type; the local
\* month; the day, which is the date toISOString gives, that is the UTC
\* date); its count is the number of those events and its monthly_savings
\* the sum of their monthly savings, an absent one counting 0.
C15_Grouping ==
    Delivered =>
        /\ GroupsSelected([j \in 1..Len(Doc.summary.breakdown_by_type) |->
                              Doc.summary.breakdown_by_type[j].type],
                          [j \in 1..Len(Doc.summary.breakdown_by_type) |->
                              Doc.summary.breakdown_by_type[j].count],
                          [j \in 1..Len(Doc.summary.breakdown_by_type) |->
                              Doc.summary.breakdown_by_type[j].monthly_savings],
                          [i \in 1..Len(Selected) |-> Selected[i].resource_type])
        /\ AllTimeCall =>
              GroupsSelected([j \in 1..Len(Doc.summary.breakdown_by_month) |->
                                 MonthOrdinal(Doc.summary.breakdown_by_month[j])],
                             [j \in 1..Len(Doc.summary.breakdown_by_month) |->
                                 Doc.summary.breakdown_by_month[j].count],
                             [j \in 1..Len(Doc.summary.breakdown_by_month) |->
                                 Doc.summary.breakdown_by_month[j].monthly_savings],
                             [i \in 1..Len(Selected) |->
                                 LocalMonthOrdinal(Selected[i].deleted_at)])
        /\ MonthCall =>
              GroupsSelected([j \in 1..Len(Doc.summary.breakdown_by_day) |->
                                 DayOrdinal(Doc.summary.breakdown_by_day[j].date)],
                             [j \in 1..Len(Doc.summary.breakdown_by_day) |->
                                 Doc.summary.breakdown_by_day[j].count],
                             [j \in 1..Len(Doc.summary.breakdown_by_day) |->
                                 Doc.summary.breakdown_by_day[j].monthly_savings],
                             [i \in 1..Len(Selected) |->
                                 UtcDayOrdinal(Selected[i].deleted_at)])

\* two events with savings share one type entry
C15_Witness ==
    /\ Delivered
    /\ Len(Selected) = 2
    /\ StatedMonthly(Selected[1]) > 0
    /\ StatedMonthly(Selected[2]) > 0
    /\ Selected[1].resource_id # Selected[2].resource_id
    /\ Len(Doc.summary.breakdown_by_type) = 1
    /\ Doc.summary.breakdown_by_type[1].count = 2

HasMalformed == \E i \in 1..Len(Resources) : ~Resources[i].deleted_at.valid

\* C16: when some deleted_at of the collection does not parse, an export of
\* either mode does not abort; the document it delivers leaves exactly the
\* unparsable events out of the records, the totals and every breakdown,
\* and its total_resources is smaller than the size of the collection.
C16_MalformedContained ==
    (lastCall.op # "none" /\ HasMalformed) =>
        /\ ~lastCall.threw
        /\ AllTimeCall => Delivered
        /\ (MonthCall /\ WellFormedKey(lastCall.monthYear) /\ InMonth # <<>>) => Delivered
        /\ Delivered =>
              /\ Ids(Doc.deleted_resources) = Ids(Selected)
              /\ \A i \in 1..Len(Doc.deleted_resources) :
                    Doc.deleted_resources[i].deleted_at.valid
              /\ Doc.export_info.total_resources = Len(Selected)
              /\ Doc.export_info.total_resources < Len(Resources)
              /\ RendersAmount(Doc.export_info.total_monthly_savings,
                               TotalStatedMonthly(Selected))
              /\ CountSum(Doc.summary.breakdown_by_type) = Len(Selected)
              /\ AllTimeCall => CountSum(Doc.summary.breakdown_by_month) = Len(Selected)
              /\ MonthCall => CountSum(Doc.summary.breakdown_by_day) = Len(Selected)

\* one of two events does not parse; the document holds the other one
C16_Witness ==
    /\ HasMalformed
    /\ Len(Resources) = 2
    /\ Delivered
    /\ Doc.export_info.total_resources = 1
    /\ CentsOf(Doc.export_info.total_monthly_savings) > 0

\* C17: an export request yields what the first request of the run yielded
\* when it is the same request (same mode, same as-of instant or same
\* requested month) over the same collection and region: the same notice and
\* the same file, the export timestamp aside, whatever was requested between
\* the two.
C17_Stateless ==
    (firstExport # <<>> /\ Request = firstExport[1].request) =>
        Outcome = firstExport[1].outcome

\* a month is exported again at another instant, after a first export of it
C17_Witness ==
    /\ firstExport # <<>>
    /\ MonthCall
    /\ Request = firstExport[1].request
    /\ lastCall.now # firstExport[1].at
    /\ Delivered
    /\ Doc.export_info.total_resources > 0

\* C18: no step of the engine (bucket discovery, ALL_TIME export,
\* SINGLE_MONTH export, with the breakdown helpers they call) changes the
\* input: the collection keeps its events, their order and their field
\* values, and the configured region stays as it was.
C18_InputImmutable == [][data' = data]_vars

\* the months were discovered and an export was delivered over a collection
\* of two different events
C18_Witness ==
    /\ rendered
    /\ Len(availableMonths) = 2
    /\ Len(Resources) = 2
    /\ Resources[1] # Resources[2]
    /\ Delivered
    /\ Doc.export_info.total_resources = 2

\* C19: in every delivered document total_resources is the number of
\* filtered events, and deleted_resources holds one entry per filtered event,
\* in the order of the collection, with that event's resource_type,
\* resource_id and deleted_at as they were read.
C19_Records ==
    Delivered =>
        /\ Doc.export_info.total_resources = Len(Selected)
        /\ Len(Doc.deleted_resources) = Len(Selected)
        /\ \A i \in 1..Len(Selected) :
              /\ Doc.deleted_resources[i].resource_type = Selected[i].resource_type
              /\ Doc.deleted_resources[i].resource_id = Selected[i].resource_id
              /\ Doc.deleted_resources[i].deleted_at = Selected[i].deleted_at

\* two of two events are exported, one of them stamped in local time
C19_Witness ==
    /\ Delivered
    /\ Len(Resources) = 2
    /\ Len(Doc.deleted_resources) = 2
    /\ Doc.deleted_resources[1].resource_id # Doc.deleted_resources[2].resource_id
    /\ ~Doc.deleted_resources[1].deleted_at.z

\* the text 0.00
ZeroAmount == <<48, 46, 48, 48>>

\* a timestamp text of the document denotes the as-of instant of the request
IsAsOf(at) ==
    /\ at.valid
    /\ at.z
    /\ OwnFields(at) = Fields(lastCall.now.s, lastCall.now.ms)

\* C20: an ALL_TIME export over a non-empty collection of which no event
\* lies at or before the as-of instant raises no notice and delivers a
\* document with total_resources 0, both totals "0.00", no records, empty
\* breakdown_by_type and breakdown_by_month, and date_range.from =
\* date_range.to = the as-of instant.
C20_EmptyAllTime ==
    (AllTimeCall /\ Len(Resources) > 0 /\ UpToNow = <<>>) =>
        /\ alertMsg = NoAlert
        /\ ~lastCall.threw
        /\ Delivered
        /\ Doc.export_info.total_resources = 0
        /\ Doc.export_info.total_monthly_savings = ZeroAmount
        /\ Doc.export_info.total_annual_savings = ZeroAmount
        /\ Doc.deleted_resources = <<>>
        /\ Doc.summary.breakdown_by_type = <<>>
        /\ Doc.summary.breakdown_by_month = <<>>
        /\ IsAsOf(Doc.export_info.date_range.from)
        /\ IsAsOf(Doc.export_info.date_range.to)
        /\ Doc.export_info.date_range.from = Doc.export_info.date_range.to

\* two parsable events, both later than the as-of instant of the request
C20_Witness ==
    /\ AllTimeCall
    /\ Len(Resources) = 2
    /\ AllParse
    /\ UpToNow = <<>>
    /\ Delivered
    /\ Doc.export_info.total_resources = 0

\* the calendar fields of the first instant of month m of year y, and of the
\* last instant of the month's filter window (23:59:59.000 of its last day)
FirstInstant(y, m) == [Y |-> y, M |-> m, D |-> 1, h |-> 0, mi |-> 0, s |-> 0, ms |-> 0]

LastInstant(y, m) ==
    [Y |-> y, M |-> m, D |-> LastDayOf(y, m), h |-> 23, mi |-> 59, s |-> 59, ms |-> 0]

\* C21: a delivered SINGLE_MONTH document has date_range.from at the first
\* local instant and date_range.to at the last local instant of the requested
\* month's window, every exported event lies between the two, month and year
\* are the requested month's name and year, and the title embeds both.
C21_MonthMetadata ==
    (MonthCall /\ Delivered) =>
        LET k == lastCall.monthYear
            y == KeyYear(k)
            m == KeyMonth(k)
            range == Doc.export_info.date_range
        IN /\ WellFormedKey(k)
           /\ range.from.valid /\ range.from.z
           /\ range.to.valid /\ range.to.z
           /\ LocalCalendar(range.from) = FirstInstant(y, m)
           /\ LocalCalendar(range.to) = LastInstant(y, m)
           /\ \A i \in 1..Len(Doc.deleted_resources) :
                 /\ CalendarLE(UtcCalendar(range.from),
                               UtcCalendar(Doc.deleted_resources[i].deleted_at))
                 /\ CalendarLE(UtcCalendar(Doc.deleted_resources[i].deleted_at),
                               UtcCalendar(range.to))
           /\ Doc.export_info.month = MonthNameOf(m)
           /\ Doc.export_info.year = SubSeq(k, 1, 4)
           /\ Doc.export_info.title =
                 <<"CostGuardian - ", MonthNameOf(m), " ", SubSeq(k, 1, 4), " Deletion Log">>

\* February 2025 is exported in a zone east of UTC: its window starts on
\* 31 January in UTC
C21_Witness ==
    /\ MonthCall
    /\ Delivered
    /\ tz > 0
    /\ Doc.export_info.month = "February"
    /\ Doc.export_info.date_range.from.M = 1
    /\ Doc.export_info.date_range.to.D = 28

\* an optional text is present when the field exists and is not empty
Present(x) == x # <<>> /\ x[1] # ""

\* str is '$' followed by amount rendered with two decimals
RendersDollars(str, amount) ==
    /\ Len(str) > 1
    /\ str[1] = 36
    /\ RendersAmount(Tail(str), amount)

\* region, name and monthly saving of the entry written for event e
EntryDefaults(entry, e) ==
    /\ entry.region =
          (IF Present(e.region) THEN e.region[1]
           ELSE IF Present(data.config_aws_region) THEN data.config_aws_region[1]
           ELSE "us-east-1")
    /\ entry.resource_name =
          (IF Present(e.resource_name) THEN e.resource_name[1] ELSE "Unnamed")
    /\ RendersDollars(entry.monthly_savings, StatedMonthly(e))

\* C22: every entry of deleted_resources, in either mode, has the event's
\* own region when present, else the configured region, else "us-east-1";
\* the event's name when present, else "Unnamed"; monthly_savings the event's
\* monthly saving (0 when absent) and annual_savings the event's
\* annual_savings when present, else 12 times its monthly saving, both as
\* '$' texts with two decimals.
C22_Enrichment ==
    Delivered =>
        /\ Len(Doc.deleted_resources) = Len(Selected)
        /\ \A i \in 1..Len(Selected) :
              /\ EntryDefaults(Doc.deleted_resources[i], Selected[i])
              /\ RendersDollars(Doc.deleted_resources[i].annual_savings,
                                StatedAnnual(Selected[i]))

\* the enrichment that holds of the code: region, name and monthly saving of
\* every entry, and the annual saving of the events whose annual_savings is
\* not a present 0
EnrichmentButAnnualZero ==
    Delivered =>
        /\ Len(Doc.deleted_resources) = Len(Selected)
        /\ \A i \in 1..Len(Selected) :
              /\ EntryDefaults(Doc.deleted_resources[i], Selected[i])
              /\ (Selected[i].annual_savings = <<>> \/ Selected[i].annual_savings[1] # 0)
                    => RendersDollars(Doc.deleted_resources[i].annual_savings,
                                      StatedAnnual(Selected[i]))

\* C23: whatever the interleaving of the steps of the callers, a finished
\* export request (of either mode) has yielded the notice and the file it
\* yields when it runs alone over the same collection.
C23_Independent ==
    \A c \in Callers :
        calls[c].pc = "done" =>
            /\ calls[c].alertMsg = RunAlone(calls[c].op, calls[c].monthYear, calls[c].now).alertMsg
            /\ calls[c].delivered = RunAlone(calls[c].op, calls[c].monthYear, calls[c].now).delivered

\* two requests of different modes have overlapped and both delivered a
\* document of more than one event
C23_Witness ==
    /\ calls[1].pc = "done" /\ calls[2].pc = "done"
    /\ calls[1].overlapped /\ calls[2].overlapped
    /\ calls[1].op # calls[2].op
    /\ \A c \in Callers :
          /\ calls[c].delivered # <<>>
          /\ calls[c].delivered[1].exportData.export_info.total_resources > 1

\* the events whose own bucket key (local year and month of deleted_at) is k
OwnBucket(k) ==
    Chosen(Resources,
           [i \in 1..Len(Resources) |->
               /\ Resources[i].deleted_at.valid
               /\ KeyText(LocalCalendar(Resources[i].deleted_at).Y,
                          LocalCalendar(Resources[i].deleted_at).M) = k])

\* C24: the export of a discovered month never raises the no-match notice;
\* it delivers exactly the events whose own bucket key is that month, and the
\* count shown on the month's button is the document's total_resources.
C24_DiscoveryAgreement ==
    (MonthCall /\ Len(Resources) > 0 /\ lastCall.monthYear \in Range(availableMonths)) =>
        /\ Delivered
        /\ Ids(Doc.deleted_resources) = Ids(OwnBucket(lastCall.monthYear))
        /\ Doc.export_info.total_resources = Len(monthResources(lastCall.monthYear))

\* the agreement fails with every timestamp parsing: an event of the last
\* second of a month, after 23:59:59.000, is discovered and counted but the
\* export of its month raises the no-match notice
DiscoveredNotExported ==
    /\ MonthCall
    /\ AllParse
    /\ lastCall.monthYear \in Range(availableMonths)
    /\ Len(monthResources(lastCall.monthYear)) > 0
    /\ Len(OwnBucket(lastCall.monthYear)) = Len(monthResources(lastCall.monthYear))
    /\ ~Delivered

\* the rank of the local day of a timestamp
LocalDayOrdinal(at) ==
    (12 * LocalCalendar(at).Y + LocalCalendar(at).M) * 32 + LocalCalendar(at).D

\* C25: in a delivered SINGLE_MONTH document, in any zone, the date of every
\* breakdown_by_day entry is a day of the requested year and month, and two
\* exported events of one local calendar day are counted in one entry.
C25_DayKeysInMonth ==
    (MonthCall /\ Delivered) =>
        /\ \A j \in 1..Len(Doc.summary.breakdown_by_day) :
              /\ WellFormedDay(Doc.summary.breakdown_by_day[j].date)
              /\ SubSeq(Doc.summary.breakdown_by_day[j].date, 1, 7) = lastCall.monthYear
        /\ \A i1, i2 \in 1..Len(Selected) :
              LocalDayOrdinal(Selected[i1].deleted_at) = LocalDayOrdinal(Selected[i2].deleted_at)
                 => \E j \in 1..Len(Doc.summary.breakdown_by_day) :
                       /\ DayOrdinal(Doc.summary.breakdown_by_day[j].date)
                             = UtcDayOrdinal(Selected[i1].deleted_at)
                       /\ DayOrdinal(Doc.summary.breakdown_by_day[j].date)
                             = UtcDayOrdinal(Selected[i2].deleted_at)

\* the export of February 2025 east of UTC holds an entry dated 31 January
DayOutsideMonth ==
    /\ MonthCall
    /\ Delivered
    /\ tz = 330
    /\ Len(Resources) = 1
    /\ Resources[1].resource_id = "i-3"
    /\ Doc.export_info.month = "February"
    /\ Doc.summary.breakdown_by_day[1].date = <<50, 48, 50, 53, 45, 48, 49, 45, 51, 49>>

\* C26: after discovery every key of availableMonths is a well-formed
\* YYYY-MM text with a month of 01..12 that is the local month of at least
\* one event with a parsable deleted_at; an unparsable one adds no key.
C26_DiscoverMalformed ==
    rendered =>
        /\ \A j \in 1..Len(availableMonths) :
              /\ WellFormedKey(availableMonths[j])
              /\ KeyMonth(availableMonths[j]) \in 1..12
              /\ OwnBucket(availableMonths[j]) # <<>>
        /\ Len(availableMonths) =
              Cardinality({LocalMonthOrdinal(Resources[i].deleted_at) :
                             i \in {n \in 1..Len(Resources) : Resources[n].deleted_at.valid}})

\* the sum of the savings accumulated in the entries of a breakdown object
RECURSIVE SavingsOf(_)
SavingsOf(entries) ==
    IF entries = <<>> THEN 0 ELSE entries[1].savings + SavingsOf(Tail(entries))

EffectiveAnnual(e) ==
    IF e.annual_savings # <<>> /\ e.annual_savings[1] # 0 THEN e.annual_savings[1]
    ELSE 12 * StatedMonthly(e)

RECURSIVE TotalEffectiveAnnual(_)
TotalEffectiveAnnual(rs) ==
    IF rs = <<>> THEN 0 ELSE EffectiveAnnual(rs[1]) + TotalEffectiveAnnual(Tail(rs))

\* every exported event counts twelve times its monthly saving as annual
Proportional == \A i \in 1..Len(Selected) :
                   EffectiveAnnual(Selected[i]) = 12 * StatedMonthly(Selected[i])

\* the annual figure of every breakdown_by_type and breakdown_by_month entry
\* is twelve times the sum of the monthly savings of the entry's events,
\* whatever their annual_savings; the records and the total count the
\* effective annual saving
AnnualFigures ==
    /\ \A j \in 1..Len(Doc.summary.breakdown_by_type) :
          RendersDollars(
              Doc.summary.breakdown_by_type[j].annual_savings,
              12 * TotalStatedMonthly(
                      Chosen(Selected,
                             [i \in 1..Len(Selected) |->
                                 Selected[i].resource_type
                                    = Doc.summary.breakdown_by_type[j].type])))
    /\ AllTimeCall =>
          \A j \in 1..Len(Doc.summary.breakdown_by_month) :
              RendersDollars(
                  Doc.summary.breakdown_by_month[j].annual_savings,
                  12 * TotalStatedMonthly(
                          Chosen(Selected,
                                 [i \in 1..Len(Selected) |->
                                     LocalMonthOrdinal(Selected[i].deleted_at)
                                        = MonthOrdinal(Doc.summary.breakdown_by_month[j])])))
    /\ \A i \in 1..Len(Selected) :
          RendersDollars(Doc.deleted_resources[i].annual_savings, EffectiveAnnual(Selected[i]))
    /\ RendersAmount(Doc.export_info.total_annual_savings, TotalEffectiveAnnual(Selected))

Settled == page.pc = "settled"

\* the zeroed object with no deleted resources
IsFallback(d) ==
    /\ d.deleted_resources = <<>>
    /\ d.breakdown = <<>>
    /\ \A f \in DOMAIN d.overview : d.overview[f] = 0

\* setData({ ...jsonData, config: config.user_info }) for the fetched document
Merged(body, user_info) ==
    [overview |-> body.overview, breakdown |-> body.breakdown,
     deleted_resources |-> body.deleted_resources, config |-> user_info]

\* C29: a run of fetchData in which /config.json and data.json were both
\* fetched ends with the fetched document (overview, breakdown,
\* deleted_resources) merged with config.user_info as the page's data, not
\* with the zeroed fallback.
C29_LoadSuccess ==
    (Settled /\ page.config # <<>> /\ page.dataResponse # <<>>) =>
        /\ page.data = <<Merged(page.dataResponse[1].body[1], page.config[1].user_info[1])>>
        /\ ~IsFallback(page.data[1])

\* C30: every run of fetchData ends; when it has ended loading is false and
\* data is not null; after a failed run data is the zeroed fallback with no
\* deleted resources, the log downloader offers no months and an export
\* raises the no-data notice and delivers nothing.
C30_Settles ==
    /\ [](Settled =>
            /\ ~page.loading
            /\ page.data # <<>>
            /\ page.failed =>
                  /\ IsFallback(page.data[1])
                  /\ Resources = <<>>
                  /\ rendered => availableMonths = <<>>
                  /\ lastCall.op # "none" => (alertMsg = NoDataAlert /\ ~Delivered))
    /\ (page.pc = "config") ~> Settled

\* after a run that failed on /config.json the downloader has rendered and
\* an export was requested
C30_Witness ==
    /\ Settled
    /\ page.failed
    /\ page.config = <<>>
    /\ ~page.loading
    /\ rendered
    /\ AllTimeCall
    /\ alertMsg = NoDataAlert

====
